---- MODULE Spec2Model ----
(***************************************************************************)
(* Credential and session lifecycle of the auth microservice:              *)
(* AuthService (register, login, refreshTokens, logout, verifyEmail, ...), *)
(* UsersService (update, remove), the JWT guard, UsersRepository and the   *)
(* User entity.  A request is a process that advances one awaited store or *)
(* notifier call at a time; the synchronous code and the awaited pure      *)
(* computations (bcrypt, jwt.sign) that follow a call up to the next call  *)
(* belong to the same step and read the clock once.                        *)
(***************************************************************************)
EXTENDS Integers, Sequences, FiniteSets, TLC

\* ------------------------------------------------------------------ bounds
\* Rows the users table may hold.
MaxUsers == 2
\* uuid v4 tokens TokenFactory may mint (verification and reset tokens).
MaxTokens == 2
\* Requests the service accepts in one run: one at a time under Spec,
\* overlapping under SpecConc.
MaxRequests == 4
MaxOverlapping == 2
\* The clock is sampled within MaxSkew hours after start-up and within MaxSkew
\* hours after the 24 h mark, which puts both expiry boundaries in range.
MaxSkew == 1

\* ------------------------------------------------------- program constants
EmailVerificationHours == 24
PasswordResetHours == 1
\* bcrypt reads at most the first 72 bytes of its input.
\* sendEmail: sendEmailWithRetry(options, 3)
MaxRetries == 3

BcryptMaxBytes == 72
\* class-validator bounds of RegisterDto.password, ResetPasswordDto.newPassword
\* and UpdateUserDto.password.
MinPasswordLength == 8
MaxPasswordLength == 128
\* Bytes of a compact JWT before its payload: the base64url header
\* eyJhbGciOiJIUzI1NiIsInR5cCI6IkpXVCJ9 (36) and the dot.
JwtHeaderBytes == 37
\* Bytes of the payload JSON before the userId value, {"userId":" , and the
\* length of the uuid that follows.
JwtUserIdOffset == 11
UuidLength == 36

Min(a, b) == IF a < b THEN a ELSE b

Clock == {t \in 0..(EmailVerificationHours + MaxSkew) :
             t <= MaxSkew \/ t >= EmailVerificationHours}

\* The address that signs up, and one that never does.
Emails == {"a@x.com"}
Strangers == {"nobody@x.com"}

PwSecret == <<"S", "e", "c", "r", "e", "t", "1", "!">>
PwDollar == <<"$", "2", "S", "e", "c", "r", "e", "t">>
Passwords == {PwSecret, PwDollar}

UserIds == 1..MaxUsers
\* Two requests may be in flight together under SpecConc.
Procs == {1, 2}

\* ------------------------------------------------------------ null values
NoToken == 0
NoDate == -1
NoHash == [kind |-> "null"]
NoJwt == [sub |-> 0, iat |-> NoDate]
NoPassword == << >>
NoRes == [code |-> 0, msg |-> ""]

VARIABLES
  users,     \* the users table: a sequence of rows, the id is the index
  now,       \* the clock, in hours
  nextTok,   \* the next uuid TokenFactory returns
  req,       \* the request each process is handling
  issued,    \* token pairs returned to clients, as their (sub, iat)
  mailed,    \* single-use tokens delivered by mail
  verifiedOk, \* verification tokens for which verifyEmail returned success
  loggedOut, \* ids whose logout completed with no login completed since
  resetOk,   \* reset tokens for which resetPassword returned success
  superseded, \* single-use tokens that a later token of their row overwrote
  served,    \* requests accepted so far
  env,       \* the configuration the service started with
  smtp,      \* the call of EmailService.sendEmail in progress
  consumed   \* verification tokens whose account verifyEmail has updated

vars == <<users, now, nextTok, req, issued, mailed, verifiedOk, loggedOut,
         resetOk, superseded, served, env, smtp, consumed>>

\* ---------------------------------------------------------- configuration
\* The values the deployment may give a JWT secret, each at least 32
\* characters long.
Secrets == {"secret-1", "secret-2"}

\* validateEnvironment: both secrets are present and long enough; it does not
\* compare them.
ValidateEnvironment(e) ==
  e.JWT_ACCESS_SECRET \in Secrets /\ e.JWT_REFRESH_SECRET \in Secrets

\* The configurations the service starts with, up to the naming of the
\* secrets.
Environments ==
  {e \in [JWT_ACCESS_SECRET : Secrets, JWT_REFRESH_SECRET : Secrets] :
     ValidateEnvironment(e) /\ e.JWT_ACCESS_SECRET = "secret-1"}

\* The configuration the README describes: a value of its own for each secret.
DocumentedEnvironment ==
  [JWT_ACCESS_SECRET |-> "secret-1", JWT_REFRESH_SECRET |-> "secret-2"]

\* The two tokens of a pair: both carry the payload (userId, email, role) and
\* differ in the secret that signed them and in their lifetime.
TokenKinds == {"access", "refresh"}

\* TokenFactory.createAccessToken / createRefreshToken: the secret a token of
\* the kind is signed with.
SigningSecret(kind) ==
  IF kind = "access" THEN env.JWT_ACCESS_SECRET ELSE env.JWT_REFRESH_SECRET

\* passport-jwt verifies the signature with the strategy's secretOrKey.
JwtStrategyAccepts(kind) == SigningSecret(kind) = env.JWT_ACCESS_SECRET

RefreshTokenStrategyAccepts(kind) == SigningSecret(kind) = env.JWT_REFRESH_SECRET

\* ----------------------------------------------------------------- bcrypt
\* bcrypt.hash: the salt is not modelled; the hash is written as its preimage
\* under a tag, and only bcrypt.compare reads it.
BcryptHash(data) == [kind |-> "bcrypt", of |-> data]

\* A column holding the characters as they were given.
Plain(data) == [kind |-> "plain", of |-> data]

Truncate(s) == SubSeq(s, 1, Min(Len(s), BcryptMaxBytes))

\* bcrypt.compare(password, stored): false for a stored value that is not a
\* bcrypt hash; both sides are cut to BcryptMaxBytes.
BcryptComparePassword(data, stored) ==
  /\ stored.kind = "bcrypt"
  /\ Truncate(data) = Truncate(stored.of)

\* The claims of a signed token that lie within its first BcryptMaxBytes bytes.
\* The header takes JwtHeaderBytes; the rest covers
\* ((BcryptMaxBytes - JwtHeaderBytes) * 6) \div 8 bytes of the payload JSON
\* {"userId":"<uuid>","email":...,"role":...,"iat":...,"exp":...}.
JwtBytesCovered == ((BcryptMaxBytes - JwtHeaderBytes) * 6) \div 8

JwtTruncate(jwt) ==
  [sub |-> IF JwtBytesCovered > JwtUserIdOffset THEN jwt.sub ELSE 0,
   iat |-> IF JwtBytesCovered > JwtUserIdOffset + UuidLength THEN jwt.iat ELSE NoDate]

\* bcrypt.compare(refreshToken, user.refreshToken)
BcryptCompareToken(jwt, stored) ==
  /\ stored.kind = "bcrypt"
  /\ JwtTruncate(jwt) = JwtTruncate(stored.of)

\* --------------------------------------------------------------- the entity
StartsWithDollar2(s) == Len(s) >= 2 /\ s[1] = "$" /\ s[2] = "2"

\* User.hashPassword, the @BeforeInsert/@BeforeUpdate hook run by save().
HashPasswordHook(password) ==
  IF Len(password) > 0 /\ ~StartsWithDollar2(password)
  THEN BcryptHash(password)
  ELSE Plain(password)

\* User.validatePassword
ValidatePassword(row, password) == BcryptComparePassword(password, row.password)

\* The row repository.create(dto) + save() inserts: the column defaults of
\* the entity and the hashed password.
NewRow(email, password) ==
  [email |-> email,
   password |-> HashPasswordHook(password),
   role |-> "user",
   status |-> "inactive",
   isEmailVerified |-> FALSE,
   emailVerificationToken |-> NoToken,
   emailVerificationExpires |-> NoDate,
   passwordResetToken |-> NoToken,
   passwordResetExpires |-> NoDate,
   refreshToken |-> NoHash,
   lastLoginAt |-> NoDate,
   deleted |-> FALSE]

\* ------------------------------------------------------------ the repository
Ids == 1..Len(users)

\* A findById that does not filter on the deleted flag.
FindByIdAnyRow(id) == IF id \in Ids THEN id ELSE 0

\* findOne({ where: { id, deleted: false } }): the id, or 0.
FindById(id) ==
  IF id \in Ids /\ ~users[id].deleted THEN id ELSE 0

\* A findByEmail that does not filter on the deleted flag.
FindByEmailAnyRow(email) ==
  IF \E i \in Ids : users[i].email = email
  THEN CHOOSE i \in Ids : users[i].email = email
  ELSE 0

FindByEmail(email) ==
  IF \E i \in Ids : users[i].email = email /\ ~users[i].deleted
  THEN CHOOSE i \in Ids : users[i].email = email /\ ~users[i].deleted
  ELSE 0

FindByEmailVerificationToken(token) ==
  IF \E i \in Ids : users[i].emailVerificationToken = token /\ ~users[i].deleted
  THEN CHOOSE i \in Ids : users[i].emailVerificationToken = token /\ ~users[i].deleted
  ELSE 0

FindByPasswordResetToken(token) ==
  IF \E i \in Ids : users[i].passwordResetToken = token /\ ~users[i].deleted
  THEN CHOOSE i \in Ids : users[i].passwordResetToken = token /\ ~users[i].deleted
  ELSE 0

\* The unique index on users.email: an insert is refused when any row, deleted
\* or not, holds the email.
\* The users table without the unique index on email.
EmailTakenNoIndex(email) == FALSE

\* A unique index that covers only the rows that are not soft-deleted.
EmailTakenAmongLive(email) ==
  \E i \in Ids : users[i].email = email /\ ~users[i].deleted

EmailTaken(email) == \E i \in Ids : users[i].email = email

\* repository.update(id, fields): a plain UPDATE by primary key; no row, no
\* effect.  It runs no entity hook.
UpdateRow(id, fields) ==
  IF id \in Ids
  THEN [users EXCEPT ![id] = [f \in DOMAIN users[id] |->
                                 IF f \in DOMAIN fields THEN fields[f] ELSE users[id][f]]]
  ELSE users

UpdateRefreshToken(id, hash) == UpdateRow(id, [refreshToken |-> hash])

UpdateLastLogin(id) == UpdateRow(id, [lastLoginAt |-> now])

\* A setEmailVerificationToken that moves the expiry and leaves the token of
\* the row as it is.
SetEmailVerificationTokenKeepsToken(id, token, expires) ==
  UpdateRow(id, [emailVerificationExpires |-> expires])

SetEmailVerificationToken(id, token, expires) ==
  UpdateRow(id, [emailVerificationToken |-> token,
                 emailVerificationExpires |-> expires])

\* A verifyEmail update that sets the flag and clears the token but leaves
\* the status for a later write.
RepoVerifyEmailNoStatus(id) ==
  UpdateRow(id, [isEmailVerified |-> TRUE,
                 emailVerificationToken |-> NoToken,
                 emailVerificationExpires |-> NoDate])

\* A verifyEmail update that leaves the verification token in the row.
RepoVerifyEmailKeepsToken(id) ==
  UpdateRow(id, [isEmailVerified |-> TRUE, status |-> "active"])

RepoVerifyEmail(id) ==
  UpdateRow(id, [isEmailVerified |-> TRUE,
                 emailVerificationToken |-> NoToken,
                 emailVerificationExpires |-> NoDate,
                 status |-> "active"])

\* A setPasswordResetToken that keeps a reset token the row already holds.
SetPasswordResetTokenKeepsFirst(id, token, expires) ==
  IF users[id].passwordResetToken # NoToken
  THEN users
  ELSE UpdateRow(id, [passwordResetToken |-> token,
                      passwordResetExpires |-> expires])

SetPasswordResetToken(id, token, expires) ==
  UpdateRow(id, [passwordResetToken |-> token, passwordResetExpires |-> expires])

\* A clearPasswordResetToken that leaves the token and its expiry in the row.
ClearPasswordResetTokenKeeps(id) == users

ClearPasswordResetToken(id) ==
  UpdateRow(id, [passwordResetToken |-> NoToken, passwordResetExpires |-> NoDate])

RepoRemove(id) == UpdateRow(id, [deleted |-> TRUE])

\* repository.find(): the ids of the rows findAll returns.
FindAll == {i \in Ids : TRUE}

\* repository.find(): the ids of the rows findAllWithDeleted returns.
FindAllWithDeleted == {i \in Ids : TRUE}

\* ---------------------------------------------------------- the token factory
\* createTokens(payload): jwt.sign is a function of the payload, the secret
\* and the clock; email and role never change for an id, so sub and iat name
\* the pair.
CreateTokens(id) == [sub |-> id, iat |-> now]

\* A verification expiry computed with the reset lifetime.
GetEmailVerificationExpirationShort == now + PasswordResetHours

GetEmailVerificationExpiration == now + EmailVerificationHours
GetPasswordResetExpiration == now + PasswordResetHours

\* ------------------------------------------------------------------ results
Res(code, msg) == [code |-> code, msg |-> msg]
ResConflict == Res(409, "User with this email already exists")
ResQueryFailed == Res(500, "Internal server error")
ResMailFailed == Res(500, "Failed to send email")
ResRegistered == Res(201, "Registration successful! Please check your email to verify your account.")
ResInvalidCredentials == Res(401, "Invalid credentials")
ResEmailNotVerified == Res(401, "Please verify your email before logging in")
ResAccountNotActive == Res(401, "Account is not active")
ResLoggedIn == Res(200, "")
ResInvalidRefreshToken == Res(401, "Invalid refresh token")
ResRefreshed == Res(200, "")
ResLoggedOut == Res(200, "Logged out successfully")
ResInvalidVerificationToken == Res(400, "Invalid verification token")
ResVerificationExpired == Res(400, "Verification token has expired")
ResVerified == Res(200, "Email verified successfully! You can now login.")
ResUserNotFound == Res(404, "User not found")
ResAlreadyVerified == Res(400, "Email is already verified")
ResResent == Res(200, "Verification email sent successfully")
ResForgot == Res(200, "If an account exists with this email, a password reset link has been sent.")
ResInvalidResetToken == Res(400, "Invalid or expired reset token")
ResResetExpired == Res(400, "Reset token has expired")
ResPasswordReset == Res(200, "Password reset successfully. Please login with your new password.")
ResUpdated == Res(200, "")
ResRemoved == Res(200, "Account deleted successfully")
ResUnauthorized == Res(401, "Unauthorized")

\* No call of sendEmail in progress.
NoMail ==
  [pc |-> "idle", attempt |-> 0, log |-> << >>, lastError |-> "none",
   waited |-> 0]

\* ----------------------------------------------------------------- requests
Idle ==
  [op |-> "idle", pc |-> "idle", email |-> "", password |-> NoPassword,
   token |-> NoToken, uid |-> 0, jwt |-> NoJwt, mint |-> NoToken,
   exp |-> NoDate, out |-> NoJwt, had |-> FALSE, again |-> FALSE,
   at |-> NoDate, delivered |-> "none", body |-> << >>,
   lastLoginAt |-> NoDate, kind |-> "none", res |-> NoRes]

\* A process is free before its first request and once it has answered; its
\* last request and response stay readable until it takes the next one.
Free(p) == req[p].pc \in {"idle", "done"}

NoneInFlight == \A p \in Procs : Free(p)

\* Registrations that have not yet inserted their row.
PendingInserts ==
  Cardinality({p \in Procs : req[p].op = "register" /\ req[p].pc \in {"find", "create"}})

Finish(p, res) == [req EXCEPT ![p].pc = "done", ![p].res = res]
Goto(p, pc) == [req EXCEPT ![p].pc = pc]

ValidPassword(pw) == Len(pw) >= MinPasswordLength /\ Len(pw) <= MaxPasswordLength

\* The notifier either delivers or fails; EmailService throws on failure.
Delivery == {TRUE, FALSE}

\* What the database does with the refresh-token update of a login: it runs
\* it or rejects it.
QueryOutcome == {TRUE, FALSE}


\* A token string that was never minted.
GarbageToken == MaxTokens + 1

\* Requests in flight that will still mint a uuid.
PendingMints ==
  Cardinality({p \in Procs :
     \/ req[p].op = "register" /\ req[p].pc \in {"find", "create"}
     \/ req[p].op \in {"resend", "forgot"} /\ req[p].pc = "find"})

CanMint == (nextTok - 1) + PendingMints < MaxTokens

Begin(p, r) == /\ Free(p)
               /\ served' = served + 1
               /\ req' = [req EXCEPT ![p] = r]
               /\ UNCHANGED <<users, now, nextTok, issued, mailed, verifiedOk, loggedOut,
                            resetOk, superseded, env, smtp, consumed>>

\* ----------------------------------------------------- AuthService.register
\* The body register returns.
RegisterResult(uid) ==
  [message |-> "Registration successful! Please check your email to verify your account.",
   userId |-> uid]

StartRegister(p, email, password) ==
  /\ ValidPassword(password)
  /\ Len(users) + PendingInserts < MaxUsers
  /\ CanMint
  /\ Begin(p, [Idle EXCEPT !.op = "register", !.pc = "find",
                           !.email = email, !.password = password])

\* A register that goes to the insert without looking the email up.
RegisterFindNoLookup(p) ==
  /\ req[p].op = "register" /\ req[p].pc = "find"
  /\ req' = Goto(p, "create")
  /\ UNCHANGED <<users, now, nextTok, issued, mailed, verifiedOk, loggedOut,
                 resetOk, superseded, served, env, smtp, consumed>>

RegisterFind(p) ==
  /\ req[p].op = "register" /\ req[p].pc = "find"
  /\ req' = IF FindByEmail(req[p].email) # 0
            THEN Finish(p, ResConflict)
            ELSE Goto(p, "create")
  /\ UNCHANGED <<users, now, nextTok, issued, mailed, verifiedOk, loggedOut,
                 resetOk, superseded, served, env, smtp, consumed>>

\* usersRepository.create, then the uuid and its expiry.
RegisterCreate(p) ==
  /\ req[p].op = "register" /\ req[p].pc = "create"
  /\ IF EmailTaken(req[p].email)
     THEN /\ req' = Finish(p, ResQueryFailed)
          /\ UNCHANGED <<users, nextTok>>
     ELSE /\ users' = Append(users, NewRow(req[p].email, req[p].password))
          /\ nextTok' = nextTok + 1
          /\ req' = [req EXCEPT ![p].pc = "setTok",
                                ![p].uid = Len(users) + 1,
                                ![p].mint = nextTok,
                                ![p].exp = GetEmailVerificationExpiration,
                                ![p].at = now]
  /\ UNCHANGED <<now, issued, mailed, verifiedOk, loggedOut, resetOk,
                 superseded, served, env, smtp, consumed>>

RegisterSetToken(p) ==
  /\ req[p].op = "register" /\ req[p].pc = "setTok"
  /\ users' = SetEmailVerificationToken(req[p].uid, req[p].mint, req[p].exp)
  /\ req' = Goto(p, "mail")
  /\ UNCHANGED <<now, nextTok, issued, mailed, verifiedOk, loggedOut, resetOk,
                 superseded, served, env, smtp, consumed>>

\* A register that takes the account back when the verification mail fails.
RegisterMailRollsBack(p) ==
  /\ req[p].op = "register" /\ req[p].pc = "mail"
  /\ \E ok \in Delivery :
       IF ok
       THEN /\ mailed' = mailed \cup {req[p].mint}
            /\ users' = users
            /\ req' = [Finish(p, ResRegistered) EXCEPT ![p].delivered = "ok",
                                                ![p].body = RegisterResult(req[p].uid)]
       ELSE /\ mailed' = mailed
            /\ users' = RepoRemove(req[p].uid)
            /\ req' = [Finish(p, ResMailFailed) EXCEPT ![p].delivered = "failed"]
  /\ UNCHANGED <<now, nextTok, issued, verifiedOk, loggedOut, resetOk,
                 superseded, served, env, smtp, consumed>>

RegisterMail(p) ==
  /\ req[p].op = "register" /\ req[p].pc = "mail"
  /\ \E ok \in Delivery :
       IF ok
       THEN /\ mailed' = mailed \cup {req[p].mint}
            /\ req' = [Finish(p, ResRegistered) EXCEPT ![p].delivered = "ok",
                                                ![p].body = RegisterResult(req[p].uid)]
       ELSE /\ mailed' = mailed
            /\ req' = [Finish(p, ResMailFailed) EXCEPT ![p].delivered = "failed"]
  /\ UNCHANGED <<users, now, nextTok, issued, verifiedOk, loggedOut, resetOk,
                 superseded, served, env, smtp, consumed>>

\* -------------------------------------------------------- AuthService.login
\* A login that never looks at the account status.
LoginCheckNoStatus(id, password) ==
  IF id = 0 THEN ResInvalidCredentials
  ELSE IF ~ValidatePassword(users[id], password) THEN ResInvalidCredentials
  ELSE IF ~users[id].isEmailVerified THEN ResEmailNotVerified
  ELSE NoRes

\* A login that looks at the verification flag before the password.
LoginCheckVerifiedFirst(id, password) ==
  IF id = 0 THEN ResInvalidCredentials
  ELSE IF ~users[id].isEmailVerified THEN ResEmailNotVerified
  ELSE IF ~ValidatePassword(users[id], password) THEN ResInvalidCredentials
  ELSE IF users[id].status # "active" THEN ResAccountNotActive
  ELSE NoRes

\* The checks of login on the row that findByEmail returned (0: none); NoRes
\* when they all pass.
LoginCheck(id, password) ==
  IF id = 0 THEN ResInvalidCredentials
  ELSE IF ~ValidatePassword(users[id], password) THEN ResInvalidCredentials
  ELSE IF ~users[id].isEmailVerified THEN ResEmailNotVerified
  ELSE IF users[id].status # "active" THEN ResAccountNotActive
  ELSE NoRes

StartLogin(p, email, password) ==
  Begin(p, [Idle EXCEPT !.op = "login", !.pc = "find",
                        !.email = email, !.password = password])

LoginFind(p) ==
  /\ req[p].op = "login" /\ req[p].pc = "find"
  /\ LET id == FindByEmail(req[p].email)
         failure == LoginCheck(id, req[p].password)
     IN req' = IF failure # NoRes
               THEN Finish(p, failure)
               ELSE [req EXCEPT ![p].pc = "lastLogin", ![p].uid = id,
                                ![p].lastLoginAt = users[id].lastLoginAt,
                                ![p].out = CreateTokens(id)]
  /\ UNCHANGED <<users, now, nextTok, issued, mailed, verifiedOk, loggedOut,
                 resetOk, superseded, served, env, smtp, consumed>>

LoginLastLogin(p) ==
  /\ req[p].op = "login" /\ req[p].pc = "lastLogin"
  /\ users' = UpdateLastLogin(req[p].uid)
  /\ req' = Goto(p, "store")
  /\ UNCHANGED <<now, nextTok, issued, mailed, verifiedOk, loggedOut, resetOk,
                 superseded, served, env, smtp, consumed>>

\* bcrypt.hash and updateRefreshToken; the update is a query the database may
\* reject (connection lost, timeout), and login rethrows what it rejects with.
LoginStore(p) ==
  /\ req[p].op = "login" /\ req[p].pc = "store"
  /\ \E ok \in QueryOutcome :
       IF ok
       THEN /\ users' = UpdateRefreshToken(req[p].uid, BcryptHash(req[p].out))
            /\ req' = Finish(p, ResLoggedIn)
            /\ issued' = issued \cup {req[p].out}
            /\ loggedOut' = loggedOut \ {req[p].uid}
       ELSE /\ req' = Finish(p, ResQueryFailed)
            /\ UNCHANGED <<users, issued, loggedOut>>
  /\ UNCHANGED <<now, nextTok, mailed, verifiedOk, resetOk, superseded, served, env, smtp, consumed>>

\* ------------------------------------------------------- presented tokens
\* An access token lives 15 minutes: it is unexpired only at the clock
\* reading it was signed at.
AccessTokenUsable(jwt) == jwt \in issued /\ jwt.iat = now

\* A refresh token lives 7 days, beyond the clock's range.
TokenUnexpired(jwt, kind) ==
  IF kind = "access" THEN AccessTokenUsable(jwt) ELSE jwt \in issued

\* The request a guarded route starts with: passport answers 401 at once when
\* the signature does not verify.
Guarded(accepted, r) ==
  IF accepted THEN r
  ELSE [Idle EXCEPT !.op = r.op, !.pc = "done", !.kind = r.kind,
                    !.res = ResUnauthorized]

\* ------------------------------------------------ AuthService.refreshTokens
\* RefreshTokenGuard accepts a token signed with the refresh secret and not
\* yet expired (7 days, beyond the clock's range); the id is the token's.
StartRefresh(p, jwt, kind) ==
  /\ TokenUnexpired(jwt, kind)
  /\ Begin(p, Guarded(RefreshTokenStrategyAccepts(kind),
                      [Idle EXCEPT !.op = "refresh", !.pc = "find", !.kind = kind,
                                   !.uid = jwt.sub, !.jwt = jwt]))

\* A refreshTokens that also asks for a verified, active account, as login
\* does.
RefreshAcceptsInStanding(uid, jwt) ==
  LET id == FindById(uid) IN
  /\ id # 0
  /\ users[id].refreshToken # NoHash
  /\ BcryptCompareToken(jwt, users[id].refreshToken)
  /\ users[id].isEmailVerified
  /\ users[id].status = "active"

\* Whether refreshTokens lets the presented token through its two checks.
RefreshAccepts(uid, jwt) ==
  LET id == FindById(uid) IN
  /\ id # 0
  /\ users[id].refreshToken # NoHash
  /\ BcryptCompareToken(jwt, users[id].refreshToken)

RefreshFind(p) ==
  /\ req[p].op = "refresh" /\ req[p].pc = "find"
  /\ req' = IF ~RefreshAccepts(req[p].uid, req[p].jwt)
            THEN Finish(p, ResInvalidRefreshToken)
            ELSE [req EXCEPT ![p].pc = "store",
                             ![p].out = CreateTokens(req[p].uid)]
  /\ UNCHANGED <<users, now, nextTok, issued, mailed, verifiedOk, loggedOut,
                 resetOk, superseded, served, env, smtp, consumed>>

RefreshStore(p) ==
  /\ req[p].op = "refresh" /\ req[p].pc = "store"
  /\ users' = UpdateRefreshToken(req[p].uid, BcryptHash(req[p].out))
  /\ req' = Finish(p, ResRefreshed)
  /\ issued' = issued \cup {req[p].out}
  /\ UNCHANGED <<now, nextTok, mailed, verifiedOk, loggedOut, resetOk,
                 superseded, served, env, smtp, consumed>>

\* ------------------------------------------------------------ the JWT guard
\* A validate that also asks for a stored refresh-token hash, so that a
\* logout or a password reset ends the access token too.
JwtValidateNeedsSession(uid) ==
  LET id == FindById(uid) IN
  IF id = 0 THEN Res(401, "User not found")
  ELSE IF ~users[id].isEmailVerified THEN Res(401, "Please verify your email first")
  ELSE IF users[id].status # "active" THEN Res(401, "Account is not active")
  ELSE IF users[id].refreshToken = NoHash THEN Res(401, "Session ended")
  ELSE NoRes

\* JwtStrategy.validate; NoRes when the request may proceed.
JwtValidate(uid) ==
  LET id == FindById(uid) IN
  IF id = 0 THEN Res(401, "User not found")
  ELSE IF ~users[id].isEmailVerified THEN Res(401, "Please verify your email first")
  ELSE IF users[id].status # "active" THEN Res(401, "Account is not active")
  ELSE NoRes

Guard(p, op) ==
  /\ req[p].op = op /\ req[p].pc = "guard"
  /\ req' = IF JwtValidate(req[p].uid) # NoRes
            THEN Finish(p, JwtValidate(req[p].uid))
            ELSE Goto(p, "run")
  /\ UNCHANGED <<users, now, nextTok, issued, mailed, verifiedOk, loggedOut,
                 resetOk, superseded, served, env, smtp, consumed>>

\* ------------------------------------------------------- AuthService.logout
StartLogout(p, jwt, kind) ==
  /\ TokenUnexpired(jwt, kind)
  /\ Begin(p, Guarded(JwtStrategyAccepts(kind),
                      [Idle EXCEPT !.op = "logout", !.pc = "guard", !.kind = kind,
                                   !.uid = jwt.sub]))

LogoutGuard(p) == Guard(p, "logout")

\* A logout that answers but leaves the stored hash in place.
LogoutRunKeepsHash(p) ==
  /\ req[p].op = "logout" /\ req[p].pc = "run"
  /\ req' = [req EXCEPT ![p].pc = "done", ![p].res = ResLoggedOut,
                        ![p].had = (req[p].uid \in Ids
                                    /\ users[req[p].uid].refreshToken # NoHash)]
  /\ loggedOut' = loggedOut \cup {req[p].uid}
  /\ UNCHANGED <<users, now, nextTok, issued, mailed, verifiedOk, resetOk,
                 superseded, served, env, smtp, consumed>>

\* A logout that refuses an account with no stored hash.
LogoutRunRefusesTwice(p) ==
  /\ req[p].op = "logout" /\ req[p].pc = "run"
  /\ LET had == req[p].uid \in Ids /\ users[req[p].uid].refreshToken # NoHash
     IN req' = [req EXCEPT ![p].pc = "done",
                           ![p].res = IF had THEN ResLoggedOut
                                      ELSE ResInvalidRefreshToken,
                           ![p].had = had]
  /\ users' = UpdateRefreshToken(req[p].uid, NoHash)
  /\ loggedOut' = loggedOut \cup {req[p].uid}
  /\ UNCHANGED <<now, nextTok, issued, mailed, verifiedOk, resetOk, superseded,
                 served, env, smtp, consumed>>

\* had notes whether a hash was stored when logout ran.
LogoutRun(p) ==
  /\ req[p].op = "logout" /\ req[p].pc = "run"
  /\ users' = UpdateRefreshToken(req[p].uid, NoHash)
  /\ req' = [req EXCEPT ![p].pc = "done", ![p].res = ResLoggedOut,
                        ![p].had = (req[p].uid \in Ids
                                    /\ users[req[p].uid].refreshToken # NoHash)]
  /\ loggedOut' = loggedOut \cup {req[p].uid}
  /\ UNCHANGED <<now, nextTok, issued, mailed, verifiedOk, resetOk, superseded,
                 served, env, smtp, consumed>>

\* -------------------------------------------------- AuthService.verifyEmail
\* again notes whether verifyEmail had already returned success for the token
\* when the request arrived.
StartVerify(p, token) ==
  /\ token \in mailed \cup {GarbageToken}
  /\ Begin(p, [Idle EXCEPT !.op = "verify", !.pc = "find", !.token = token,
                           !.again = (token \in verifiedOk)])

\* A verifyEmail that drops an expired token from the row as it refuses it.
VerifyFindDropsExpired(p) ==
  /\ req[p].op = "verify" /\ req[p].pc = "find"
  /\ LET id == FindByEmailVerificationToken(req[p].token)
     IN IF id = 0
        THEN req' = Finish(p, ResInvalidVerificationToken) /\ users' = users
        ELSE IF users[id].emailVerificationExpires < now
        THEN /\ req' = [Finish(p, ResVerificationExpired) EXCEPT
                          ![p].exp = users[id].emailVerificationExpires,
                          ![p].at = now]
             /\ users' = SetEmailVerificationToken(id, NoToken, NoDate)
        ELSE /\ req' = [req EXCEPT ![p].pc = "verify", ![p].uid = id,
                                   ![p].exp = users[id].emailVerificationExpires,
                                   ![p].at = now]
             /\ users' = users
  /\ UNCHANGED <<now, nextTok, issued, mailed, verifiedOk, loggedOut, resetOk,
                 superseded, served, env, smtp, consumed>>

\* A verifyEmail that also refuses a token whose expiry is the present instant.
VerifyFindExclusive(p) ==
  /\ req[p].op = "verify" /\ req[p].pc = "find"
  /\ LET id == FindByEmailVerificationToken(req[p].token)
     IN req' = IF id = 0 THEN Finish(p, ResInvalidVerificationToken)
               ELSE IF users[id].emailVerificationExpires <= now
               THEN [Finish(p, ResVerificationExpired) EXCEPT
                       ![p].exp = users[id].emailVerificationExpires,
                       ![p].at = now]
               ELSE [req EXCEPT ![p].pc = "verify", ![p].uid = id,
                                ![p].exp = users[id].emailVerificationExpires,
                                ![p].at = now]
  /\ UNCHANGED <<users, now, nextTok, issued, mailed, verifiedOk, loggedOut,
                 resetOk, superseded, served, env, smtp, consumed>>

\* exp is the expiry of the row that was found and at the reading of
\* new Date() it was compared with (in register, resend and forgot: the expiry
\* computed and the reading of Date.now() it was computed from).
VerifyFind(p) ==
  /\ req[p].op = "verify" /\ req[p].pc = "find"
  /\ LET id == FindByEmailVerificationToken(req[p].token)
     IN req' = IF id = 0 THEN Finish(p, ResInvalidVerificationToken)
               ELSE IF users[id].emailVerificationExpires < now
               THEN [Finish(p, ResVerificationExpired) EXCEPT
                       ![p].exp = users[id].emailVerificationExpires,
                       ![p].at = now]
               ELSE [req EXCEPT ![p].pc = "verify", ![p].uid = id,
                                ![p].exp = users[id].emailVerificationExpires,
                                ![p].at = now]
  /\ UNCHANGED <<users, now, nextTok, issued, mailed, verifiedOk, loggedOut,
                 resetOk, superseded, served, env, smtp, consumed>>

VerifyUpdate(p) ==
  /\ req[p].op = "verify" /\ req[p].pc = "verify"
  /\ users' = RepoVerifyEmail(req[p].uid)
  /\ consumed' = consumed \cup {req[p].token}
  /\ req' = Goto(p, "mail")
  /\ UNCHANGED <<now, nextTok, issued, mailed, verifiedOk, loggedOut, resetOk,
                 superseded, served, env, smtp>>

\* A verifyEmail that catches the failure of the welcome mail and answers
\* success.
VerifyMailSwallows(p) ==
  /\ req[p].op = "verify" /\ req[p].pc = "mail"
  /\ \E ok \in Delivery :
       /\ verifiedOk' = verifiedOk \cup {req[p].token}
       /\ req' = [Finish(p, ResVerified) EXCEPT
                    ![p].delivered = IF ok THEN "ok" ELSE "failed"]
  /\ UNCHANGED <<users, now, nextTok, issued, mailed, loggedOut, resetOk,
                 superseded, served, env, smtp, consumed>>

\* A verifyEmail that takes the verification back when the welcome mail
\* fails.
VerifyMailRollsBack(p) ==
  /\ req[p].op = "verify" /\ req[p].pc = "mail"
  /\ \E ok \in Delivery :
       IF ok
       THEN /\ verifiedOk' = verifiedOk \cup {req[p].token}
            /\ users' = users
            /\ req' = [Finish(p, ResVerified) EXCEPT ![p].delivered = "ok"]
       ELSE /\ verifiedOk' = verifiedOk
            /\ users' = UpdateRow(req[p].uid,
                                  [isEmailVerified |-> FALSE, status |-> "inactive",
                                   emailVerificationToken |-> req[p].token,
                                   emailVerificationExpires |-> req[p].exp])
            /\ req' = [Finish(p, ResMailFailed) EXCEPT ![p].delivered = "failed"]
  /\ UNCHANGED <<now, nextTok, issued, mailed, loggedOut, resetOk,
                 superseded, served, env, smtp, consumed>>

VerifyMail(p) ==
  /\ req[p].op = "verify" /\ req[p].pc = "mail"
  /\ \E ok \in Delivery :
       IF ok
       THEN /\ verifiedOk' = verifiedOk \cup {req[p].token}
            /\ req' = [Finish(p, ResVerified) EXCEPT ![p].delivered = "ok"]
       ELSE /\ verifiedOk' = verifiedOk
            /\ req' = [Finish(p, ResMailFailed) EXCEPT ![p].delivered = "failed"]
  /\ UNCHANGED <<users, now, nextTok, issued, mailed, loggedOut, resetOk,
                 superseded, served, env, smtp, consumed>>

\* ------------------------------------- AuthService.resendVerificationEmail
StartResend(p, email) ==
  /\ CanMint
  /\ Begin(p, [Idle EXCEPT !.op = "resend", !.pc = "find", !.email = email])

ResendFind(p) ==
  /\ req[p].op = "resend" /\ req[p].pc = "find"
  /\ LET id == FindByEmail(req[p].email) IN
     IF id = 0
     THEN req' = Finish(p, ResUserNotFound) /\ nextTok' = nextTok
     ELSE IF users[id].isEmailVerified
     THEN req' = Finish(p, ResAlreadyVerified) /\ nextTok' = nextTok
     ELSE /\ req' = [req EXCEPT ![p].pc = "setTok", ![p].uid = id,
                                ![p].mint = nextTok,
                                ![p].exp = GetEmailVerificationExpiration,
                                ![p].at = now]
          /\ nextTok' = nextTok + 1
  /\ UNCHANGED <<users, now, issued, mailed, verifiedOk, loggedOut, resetOk,
                 superseded, served, env, smtp, consumed>>

ResendSetToken(p) ==
  /\ req[p].op = "resend" /\ req[p].pc = "setTok"
  /\ users' = SetEmailVerificationToken(req[p].uid, req[p].mint, req[p].exp)
  /\ superseded' = superseded \cup
                     ({users[req[p].uid].emailVerificationToken} \ {NoToken})
  /\ req' = Goto(p, "mail")
  /\ UNCHANGED <<now, nextTok, issued, mailed, verifiedOk, loggedOut, resetOk,
                 served, env, smtp, consumed>>

ResendMail(p) ==
  /\ req[p].op = "resend" /\ req[p].pc = "mail"
  /\ \E ok \in Delivery :
       IF ok
       THEN /\ mailed' = mailed \cup {req[p].mint}
            /\ req' = [Finish(p, ResResent) EXCEPT ![p].delivered = "ok"]
       ELSE /\ mailed' = mailed
            /\ req' = [Finish(p, ResMailFailed) EXCEPT ![p].delivered = "failed"]
  /\ UNCHANGED <<users, now, nextTok, issued, verifiedOk, loggedOut, resetOk,
                 superseded, served, env, smtp, consumed>>

\* ----------------------------------------------- AuthService.forgotPassword
StartForgot(p, email) ==
  /\ CanMint
  /\ Begin(p, [Idle EXCEPT !.op = "forgot", !.pc = "find", !.email = email])

ForgotFind(p) ==
  /\ req[p].op = "forgot" /\ req[p].pc = "find"
  /\ LET id == FindByEmail(req[p].email) IN
     IF id = 0
     THEN req' = Finish(p, ResForgot) /\ nextTok' = nextTok
     ELSE /\ req' = [req EXCEPT ![p].pc = "setTok", ![p].uid = id,
                                ![p].mint = nextTok,
                                ![p].exp = GetPasswordResetExpiration,
                                ![p].at = now]
          /\ nextTok' = nextTok + 1
  /\ UNCHANGED <<users, now, issued, mailed, verifiedOk, loggedOut, resetOk,
                 superseded, served, env, smtp, consumed>>

ForgotSetToken(p) ==
  /\ req[p].op = "forgot" /\ req[p].pc = "setTok"
  /\ users' = SetPasswordResetToken(req[p].uid, req[p].mint, req[p].exp)
  /\ superseded' = superseded \cup
                     ({users[req[p].uid].passwordResetToken} \ {NoToken})
  /\ req' = Goto(p, "mail")
  /\ UNCHANGED <<now, nextTok, issued, mailed, verifiedOk, loggedOut, resetOk,
                 served, env, smtp, consumed>>

ForgotMail(p) ==
  /\ req[p].op = "forgot" /\ req[p].pc = "mail"
  /\ \E ok \in Delivery :
       IF ok
       THEN /\ mailed' = mailed \cup {req[p].mint}
            /\ req' = [Finish(p, ResForgot) EXCEPT ![p].delivered = "ok"]
       ELSE /\ mailed' = mailed
            /\ req' = [Finish(p, ResMailFailed) EXCEPT ![p].delivered = "failed"]
  /\ UNCHANGED <<users, now, nextTok, issued, verifiedOk, loggedOut, resetOk,
                 superseded, served, env, smtp, consumed>>

\* ------------------------------------------------ AuthService.resetPassword
\* again notes whether resetPassword had already returned success for the
\* token when the request arrived.
StartReset(p, token, password) ==
  /\ token \in mailed \cup {GarbageToken}
  /\ ValidPassword(password)
  /\ Begin(p, [Idle EXCEPT !.op = "reset", !.pc = "find",
                           !.token = token, !.password = password,
                           !.again = (token \in resetOk)])

ResetFind(p) ==
  /\ req[p].op = "reset" /\ req[p].pc = "find"
  /\ LET id == FindByPasswordResetToken(req[p].token)
     IN req' = IF id = 0 THEN Finish(p, ResInvalidResetToken)
               ELSE IF users[id].passwordResetExpires < now
               THEN [Finish(p, ResResetExpired) EXCEPT
                       ![p].exp = users[id].passwordResetExpires,
                       ![p].at = now]
               ELSE [req EXCEPT ![p].pc = "update", ![p].uid = id,
                                ![p].exp = users[id].passwordResetExpires,
                                ![p].at = now]
  /\ UNCHANGED <<users, now, nextTok, issued, mailed, verifiedOk, loggedOut,
                 resetOk, superseded, served, env, smtp, consumed>>

\* usersRepository.update(user.id, { password: hashedPassword })
ResetUpdate(p) ==
  /\ req[p].op = "reset" /\ req[p].pc = "update"
  /\ users' = UpdateRow(req[p].uid, [password |-> BcryptHash(req[p].password)])
  /\ req' = Goto(p, "clearTok")
  /\ UNCHANGED <<now, nextTok, issued, mailed, verifiedOk, loggedOut, resetOk,
                 superseded, served, env, smtp, consumed>>

ResetClearToken(p) ==
  /\ req[p].op = "reset" /\ req[p].pc = "clearTok"
  /\ users' = ClearPasswordResetToken(req[p].uid)
  /\ req' = Goto(p, "clearRt")
  /\ UNCHANGED <<now, nextTok, issued, mailed, verifiedOk, loggedOut, resetOk,
                 superseded, served, env, smtp, consumed>>

\* A resetPassword that answers without clearing the refresh-token hash.
ResetKeepsRefresh(p) ==
  /\ req[p].op = "reset" /\ req[p].pc = "clearRt"
  /\ req' = Finish(p, ResPasswordReset)
  /\ resetOk' = resetOk \cup {req[p].token}
  /\ UNCHANGED <<users, now, nextTok, issued, mailed, verifiedOk, loggedOut,
                 superseded, served, env, smtp, consumed>>

ResetClearRefresh(p) ==
  /\ req[p].op = "reset" /\ req[p].pc = "clearRt"
  /\ users' = UpdateRefreshToken(req[p].uid, NoHash)
  /\ req' = Finish(p, ResPasswordReset)
  /\ resetOk' = resetOk \cup {req[p].token}
  /\ UNCHANGED <<now, nextTok, issued, mailed, verifiedOk, loggedOut,
                 superseded, served, env, smtp, consumed>>

\* ------------------------------------ UsersController.updateProfile (PUT me)
\* An UpdateUserDto through a ValidationPipe that does not strip unknown
\* properties: the body also carries a status.
DtoFieldsNoWhitelist(password) ==
  IF password = NoPassword THEN [status |-> "suspended"]
  ELSE [password |-> Plain(password), status |-> "suspended"]

\* The fields of an UpdateUserDto that the model keeps: its password, if any.
DtoFields(password) ==
  IF password = NoPassword THEN << >> ELSE [password |-> Plain(password)]

StartUpdate(p, jwt, kind, password) ==
  /\ TokenUnexpired(jwt, kind)
  /\ password = NoPassword \/ ValidPassword(password)
  /\ Begin(p, Guarded(JwtStrategyAccepts(kind),
                      [Idle EXCEPT !.op = "update", !.pc = "guard", !.kind = kind,
                                   !.uid = jwt.sub, !.password = password]))

UpdateGuard(p) == Guard(p, "update")

\* UsersService.findById inside UsersService.update
UpdateFind(p) ==
  /\ req[p].op = "update" /\ req[p].pc = "run"
  /\ req' = IF FindById(req[p].uid) = 0
            THEN Finish(p, ResUserNotFound)
            ELSE Goto(p, "update")
  /\ UNCHANGED <<users, now, nextTok, issued, mailed, verifiedOk, loggedOut,
                 resetOk, superseded, served, env, smtp, consumed>>

\* UsersRepository.update(user.id, updateUserDto)
UpdateWrite(p) ==
  /\ req[p].op = "update" /\ req[p].pc = "update"
  /\ users' = UpdateRow(req[p].uid, DtoFields(req[p].password))
  /\ req' = Finish(p, ResUpdated)
  /\ UNCHANGED <<now, nextTok, issued, mailed, verifiedOk, loggedOut, resetOk,
                 superseded, served, env, smtp, consumed>>

\* --------------------------------- UsersController.deleteAccount (DELETE me)
StartRemove(p, jwt, kind) ==
  /\ TokenUnexpired(jwt, kind)
  /\ Begin(p, Guarded(JwtStrategyAccepts(kind),
                      [Idle EXCEPT !.op = "remove", !.pc = "guard", !.kind = kind,
                                   !.uid = jwt.sub]))

RemoveGuard(p) == Guard(p, "remove")

RemoveFind(p) ==
  /\ req[p].op = "remove" /\ req[p].pc = "run"
  /\ req' = IF FindById(req[p].uid) = 0
            THEN Finish(p, ResUserNotFound)
            ELSE Goto(p, "remove")
  /\ UNCHANGED <<users, now, nextTok, issued, mailed, verifiedOk, loggedOut,
                 resetOk, superseded, served, env, smtp, consumed>>

RemoveWrite(p) ==
  /\ req[p].op = "remove" /\ req[p].pc = "remove"
  /\ users' = RepoRemove(req[p].uid)
  /\ req' = Finish(p, ResRemoved)
  /\ UNCHANGED <<now, nextTok, issued, mailed, verifiedOk, loggedOut, resetOk,
                 superseded, served, env, smtp, consumed>>

\* ------------------------------------------------------- clock and clients
Tick ==
  /\ \E t \in Clock : t > now /\ now' = t
  /\ UNCHANGED <<users, nextTok, req, issued, mailed, verifiedOk, loggedOut,
                 resetOk, superseded, served, env, smtp, consumed>>

\* ---------------------------------------------------- EmailService.sendEmail
\* What a call of the transporter settles with: it resolves, or rejects with
\* an error of one of these codes.
TransportErrors == {"ECONNECTION", "ETIMEDOUT", "EAUTH", "ENOTFOUND"}
TransportOutcomes == {"ok"} \cup TransportErrors

\* The codes sendEmailWithRetry does not retry on.
FatalErrors == {"EAUTH", "ENOTFOUND"}

\* Math.min(1000 * Math.pow(2, attempt), 10000), in milliseconds.
BackoffDelay(attempt) == Min(1000 * (2 ^ attempt), 10000)

\* A catch block that retries whatever the code of the error.
CatchRetriesFatal(error) ==
  IF smtp.attempt = MaxRetries
  THEN [smtp EXCEPT !.pc = "thrown", !.lastError = error]
  ELSE [smtp EXCEPT !.pc = "backoff", !.lastError = error]

\* The catch block of an attempt: throw on a fatal code, leave the loop and
\* throw after the last attempt, otherwise wait before the next one.
Catch(error) ==
  IF error \in FatalErrors
  THEN [smtp EXCEPT !.pc = "thrown", !.lastError = error]
  ELSE IF smtp.attempt = MaxRetries
  THEN [smtp EXCEPT !.pc = "thrown", !.lastError = error]
  ELSE [smtp EXCEPT !.pc = "backoff", !.lastError = error]

\* log is the sequence of transport calls made and what each settled with.
Logged(m, call, outcome) ==
  [m EXCEPT !.log = Append(m.log, [call |-> call, outcome |-> outcome])]

\* sendEmail(options): the loop starts with attempt = 1.
SendEmail ==
  /\ smtp.pc = "idle"
  /\ smtp' = [smtp EXCEPT !.pc = "verify", !.attempt = 1]
  /\ UNCHANGED <<users, now, nextTok, req, issued, mailed, verifiedOk,
                 loggedOut, resetOk, superseded, served, env, consumed>>

\* transporter.verify(), on the first attempt only.
TransporterVerify ==
  /\ smtp.pc = "verify"
  /\ \E o \in TransportOutcomes :
       smtp' = Logged(IF o = "ok" THEN [smtp EXCEPT !.pc = "send"] ELSE Catch(o),
                      "verify", o)
  /\ UNCHANGED <<users, now, nextTok, req, issued, mailed, verifiedOk,
                 loggedOut, resetOk, superseded, served, env, consumed>>

\* transporter.sendMail(...), and the return that follows it.
TransporterSendMail ==
  /\ smtp.pc = "send"
  /\ \E o \in TransportOutcomes :
       smtp' = Logged(IF o = "ok" THEN [smtp EXCEPT !.pc = "returned"] ELSE Catch(o),
                      "sendMail", o)
  /\ UNCHANGED <<users, now, nextTok, req, issued, mailed, verifiedOk,
                 loggedOut, resetOk, superseded, served, env, consumed>>

\* The timer of the backoff fires and the loop goes to its next attempt.
Backoff ==
  /\ smtp.pc = "backoff"
  /\ smtp' = [smtp EXCEPT !.pc = "send", !.attempt = smtp.attempt + 1,
                          !.waited = smtp.waited + BackoffDelay(smtp.attempt)]
  /\ UNCHANGED <<users, now, nextTok, req, issued, mailed, verifiedOk,
                 loggedOut, resetOk, superseded, served, env, consumed>>

NextMail == SendEmail \/ TransporterVerify \/ TransporterSendMail \/ Backoff

\* ------------------------------------------------------------ specification
\* The table found at start-up: empty, or holding an account that registered
\* and verified in an earlier run, which an administrator may have suspended
\* in the database since.
ActiveRow ==
  [NewRow("a@x.com", PwSecret) EXCEPT !.isEmailVerified = TRUE,
                                       !.status = "active"]

SuspendedRow == [ActiveRow EXCEPT !.status = "suspended"]

\* The token pair of a login at the first clock reading.
SessionJwt == [sub |-> 1, iat |-> 0]

\* An account that logged in and was suspended in the database afterwards,
\* and one whose verification was withdrawn there: the service has no
\* operation for either, and neither clears the stored refresh-token hash.
SuspendedSessionRow ==
  [SuspendedRow EXCEPT !.refreshToken = BcryptHash(SessionJwt),
                       !.lastLoginAt = 0]

UnverifiedSessionRow ==
  [ActiveRow EXCEPT !.isEmailVerified = FALSE, !.status = "inactive",
                    !.refreshToken = BcryptHash(SessionJwt),
                    !.lastLoginAt = 0]

Stores == { << >>, <<ActiveRow>>, <<SuspendedSessionRow>>, <<UnverifiedSessionRow>> }

\* The token pairs clients hold at start-up: those whose hash the table holds.
HeldTokens(store) ==
  {store[i].refreshToken.of :
     i \in {j \in 1..Len(store) : store[j].refreshToken # NoHash}}

\* The state after bootstrap but for the configuration.
Bootstrap ==
  /\ users \in Stores
  /\ now = 0
  /\ nextTok = 1
  /\ req = [p \in Procs |-> Idle]
  /\ issued = HeldTokens(users)
  /\ mailed = {}
  /\ verifiedOk = {}
  /\ loggedOut = {}
  /\ resetOk = {}
  /\ superseded = {}
  /\ served = 0
  /\ smtp = NoMail
  /\ consumed = {}

Init == Bootstrap /\ env = DocumentedEnvironment

Step(p) ==
  \/ RegisterFind(p) \/ RegisterCreate(p) \/ RegisterSetToken(p) \/ RegisterMail(p)
  \/ LoginFind(p) \/ LoginLastLogin(p) \/ LoginStore(p)
  \/ RefreshFind(p) \/ RefreshStore(p)
  \/ LogoutGuard(p) \/ LogoutRun(p)
  \/ VerifyFind(p) \/ VerifyUpdate(p) \/ VerifyMail(p)
  \/ ResendFind(p) \/ ResendSetToken(p) \/ ResendMail(p)
  \/ ForgotFind(p) \/ ForgotSetToken(p) \/ ForgotMail(p)
  \/ ResetFind(p) \/ ResetUpdate(p) \/ ResetClearToken(p) \/ ResetClearRefresh(p)
  \/ UpdateGuard(p) \/ UpdateFind(p) \/ UpdateWrite(p)
  \/ RemoveGuard(p) \/ RemoveFind(p) \/ RemoveWrite(p)

Start(p) ==
  \/ \E e \in Emails, pw \in Passwords : StartRegister(p, e, pw)
  \/ \E e \in Emails \cup Strangers, pw \in Passwords : StartLogin(p, e, pw)
  \/ \E jwt \in issued, k \in TokenKinds : StartRefresh(p, jwt, k)
  \/ \E jwt \in issued, k \in TokenKinds : StartLogout(p, jwt, k)
  \/ \E t \in 1..GarbageToken : StartVerify(p, t)
  \/ \E e \in Emails \cup Strangers : StartResend(p, e)
  \/ \E e \in Emails \cup Strangers : StartForgot(p, e)
  \/ \E t \in 1..GarbageToken, pw \in Passwords : StartReset(p, t, pw)
  \/ \E jwt \in issued, k \in TokenKinds, pw \in Passwords \cup {NoPassword} :
       StartUpdate(p, jwt, k, pw)
  \/ \E jwt \in issued, k \in TokenKinds : StartRemove(p, jwt, k)

\* One request at a time.
Next ==
  \/ served < MaxRequests /\ NoneInFlight /\ Start(1)
  \/ Step(1)
  \/ Tick

Spec == Init /\ [][Next]_vars

\* The same service started with any configuration validateEnvironment lets
\* through.
InitEnv == Bootstrap /\ env \in Environments

SpecEnv == InitEnv /\ [][Next]_vars

\* One call of EmailService.sendEmail, on its own: every promise it awaits
\* (a transporter call, the backoff timer) settles.
SpecMail == Init /\ [][NextMail]_vars /\ WF_vars(NextMail)

\* States that runs of Spec reach from the empty table within the first clock
\* reading, from which overlapping requests are explored: the empty table; an
\* account that registered and holds its mailed verification token; an
\* account that verified, logged in and asked for a password reset.
SeedUnverified ==
  [users |-> << [NewRow("a@x.com", PwSecret) EXCEPT
                   !.emailVerificationToken = 1,
                   !.emailVerificationExpires = EmailVerificationHours] >>,
   nextTok |-> 2, issued |-> {}, mailed |-> {1}, verifiedOk |-> {}]

SeedLoggedIn ==
  [users |-> << [ActiveRow EXCEPT
                   !.refreshToken = BcryptHash([sub |-> 1, iat |-> 0]),
                   !.lastLoginAt = 0,
                   !.passwordResetToken = 2,
                   !.passwordResetExpires = PasswordResetHours] >>,
   nextTok |-> 3, issued |-> {[sub |-> 1, iat |-> 0]}, mailed |-> {1, 2},
   verifiedOk |-> {1}]

SeedEmpty ==
  [users |-> << >>, nextTok |-> 1, issued |-> {}, mailed |-> {}, verifiedOk |-> {}]

Seeds == {SeedEmpty, SeedUnverified, SeedLoggedIn}

InitConc ==
  /\ \E seed \in Seeds :
       /\ users = seed.users
       /\ nextTok = seed.nextTok
       /\ issued = seed.issued
       /\ mailed = seed.mailed
       /\ verifiedOk = seed.verifiedOk
       /\ consumed = seed.verifiedOk
  /\ env = DocumentedEnvironment
  /\ now = 0
  /\ req = [p \in Procs |-> Idle]
  /\ loggedOut = {}
  /\ resetOk = {}
  /\ superseded = {}
  /\ served = 0
  /\ smtp = NoMail

\* Requests overlap: the lowest free process takes the next one.
NextConc ==
  \/ \E p \in Procs :
       /\ served < MaxOverlapping
       /\ \A q \in 1..(p - 1) : ~Free(q)
       /\ Start(p)
  \/ \E p \in Procs : Step(p)
  \/ Tick

SpecConc == InitConc /\ [][NextConc]_vars

\* ==================================================================== claims

\* C1 (refresh rotation): once Refresh(id, tokenA) has succeeded and returned
\* a pair with a different tokenB, the stored hash reflects only tokenB, so a
\* later Refresh(id, tokenA) is not accepted.
C1_RefreshRotation ==
  \A p \in Procs :
    (/\ req[p].op = "refresh" /\ req[p].pc = "done"
     /\ req[p].res = ResRefreshed
     /\ req[p].out # req[p].jwt)
    => ~RefreshAccepts(req[p].uid, req[p].jwt)

\* C2 (uniqueness): whatever Register calls ran, and however their steps
\* interleaved, at most one non-deleted account carries a given email.
C2_UniqueEmail ==
  \A e \in Emails :
    Cardinality({i \in Ids : users[i].email = e /\ ~users[i].deleted}) <= 1

\* Two registrations of one email overlapped: both passed the lookup, one
\* inserted its row and the other was refused by the store.
C2_Witness ==
  \E p, q \in Procs :
    /\ p # q
    /\ req[p].op = "register" /\ req[q].op = "register"
    /\ req[p].email = req[q].email
    /\ req[p].pc = "done" /\ req[p].res = ResQueryFailed
    /\ req[q].uid \in Ids /\ users[req[q].uid].email = req[q].email

\* C3 (password never stored in clear): after every successful Register and
\* every successful ResetPassword the stored password differs from the
\* plaintext given and the plaintext verifies against it.
C3_PasswordNeverInClear ==
  \A p \in Procs :
    (/\ req[p].pc = "done"
     /\ \/ req[p].op = "register" /\ req[p].res = ResRegistered
        \/ req[p].op = "reset" /\ req[p].res = ResPasswordReset)
    => /\ req[p].uid \in Ids
       /\ users[req[p].uid].password # Plain(req[p].password)
       /\ ValidatePassword(users[req[p].uid], req[p].password)

\* C4 (stored password is always a hash): after a profile update whose
\* payload carries a password, the stored password of the account is a
\* non-empty hash, not a plaintext.
C4_PasswordAlwaysHashed ==
  \A p \in Procs :
    (/\ req[p].op = "update" /\ req[p].pc = "done"
     /\ req[p].res = ResUpdated
     /\ req[p].password # NoPassword)
    => /\ req[p].uid \in Ids
       /\ users[req[p].uid].password.kind = "bcrypt"
       /\ users[req[p].uid].password.of # NoPassword

\* C5 (single-use verification token): a VerifyEmail that arrives with a
\* token for which an earlier VerifyEmail already succeeded fails with
\* "Invalid verification token", and that token is in no row any more.
C5_VerificationTokenSingleUse ==
  \A p \in Procs :
    (req[p].op = "verify" /\ req[p].pc = "done" /\ req[p].again)
    => /\ req[p].res = ResInvalidVerificationToken
       /\ FindByEmailVerificationToken(req[p].token) = 0

\* The second VerifyEmail with a token that had verified an account.
C5_Witness ==
  \E p \in Procs :
    /\ req[p].op = "verify" /\ req[p].pc = "done" /\ req[p].again
    /\ req[p].res = ResInvalidVerificationToken
    /\ \E i \in Ids : users[i].isEmailVerified /\ users[i].status = "active"

C7_NoExistenceOracle ==
  [][\A p \in Procs :
       (req[p].op = "login" /\ req[p].pc = "find" /\ req'[p].pc # "find")
       => LET id == FindByEmail(req[p].email)
          IN (id = 0 \/ ~ValidatePassword(users[id], req[p].password))
             => /\ req'[p].pc = "done"
                /\ req'[p].res = Res(401, "Invalid credentials")]_vars

\* A wrong password on a known, still unverified account was answered
\* "Invalid credentials".
C7_Witness ==
  \E p \in Procs :
    /\ req[p].op = "login" /\ req[p].pc = "done"
    /\ req[p].res = ResInvalidCredentials
    /\ LET id == FindByEmail(req[p].email)
       IN /\ id # 0
          /\ ~ValidatePassword(users[id], req[p].password)
          /\ ~users[id].isEmailVerified

\* C8 (rotation on issue): after a successful Login the only refresh token
\* of the account that Refresh accepts is the one this Login returned; every
\* token issued before it is rejected.
C8_OneRefreshTokenPerAccount ==
  \A p \in Procs :
    (req[p].op = "login" /\ req[p].pc = "done" /\ req[p].res = ResLoggedIn)
    => \A jwt \in issued \ {req[p].out} : ~RefreshAccepts(req[p].uid, jwt)

\* C9 (logout then refresh): from the completion of Logout(id) until the
\* next successful Login no token at all is accepted for id, and a Refresh
\* for id run in between has failed with "Invalid refresh token".
C9_LogoutThenRefresh ==
  \A id \in loggedOut :
    /\ \A t \in Clock : ~RefreshAccepts(id, [sub |-> id, iat |-> t])
    /\ \A p \in Procs :
         (req[p].op = "refresh" /\ req[p].pc = "done" /\ req[p].uid = id)
         => req[p].res = ResInvalidRefreshToken

\* After a logout, a Refresh presenting the most recently issued refresh
\* token of the account was refused.
C9_Witness ==
  \E p \in Procs :
    /\ req[p].op = "refresh" /\ req[p].pc = "done"
    /\ req[p].uid \in loggedOut
    /\ req[p].res = ResInvalidRefreshToken
    /\ \A jwt \in issued : jwt.sub = req[p].uid => jwt.iat <= req[p].jwt.iat

C12_ExpiredLeavesRecord ==
  [][\A p \in Procs :
       /\ (/\ req[p].op = "verify" /\ req[p].pc = "find" /\ req'[p].pc # "find"
           /\ FindByEmailVerificationToken(req[p].token) # 0
           /\ users[FindByEmailVerificationToken(req[p].token)].emailVerificationExpires < now)
          => LET id == FindByEmailVerificationToken(req[p].token)
             IN /\ req'[p].pc = "done"
                /\ req'[p].res = ResVerificationExpired
                /\ users' = users
                /\ ~users'[id].isEmailVerified
                /\ users'[id].status = "inactive"
                /\ users'[id].emailVerificationToken = req[p].token
                /\ users'[id].emailVerificationExpires = users[id].emailVerificationExpires
       /\ (/\ req[p].op = "reset" /\ req[p].pc = "find" /\ req'[p].pc # "find"
           /\ FindByPasswordResetToken(req[p].token) # 0
           /\ users[FindByPasswordResetToken(req[p].token)].passwordResetExpires < now)
          => LET id == FindByPasswordResetToken(req[p].token)
             IN /\ req'[p].pc = "done"
                /\ req'[p].res = ResResetExpired
                /\ users' = users
                /\ users'[id].passwordResetToken = req[p].token]_vars

\* A VerifyEmail was refused as expired and the row still holds the token,
\* unverified and inactive.
C12_Witness ==
  \E p \in Procs :
    /\ req[p].op = "verify" /\ req[p].pc = "done"
    /\ req[p].res = ResVerificationExpired
    /\ req[p].exp < req[p].at
    /\ LET id == FindByEmailVerificationToken(req[p].token)
       IN /\ id # 0
          /\ ~users[id].isEmailVerified
          /\ users[id].status = "inactive"
          /\ users[id].emailVerificationExpires = req[p].exp

\* C13 (verification is one store mutation): the step of VerifyEmail that
\* writes leaves the row verified, active and without verification token and
\* expiry, and no step of any request makes one of these changes (flag set,
\* status made active, token cleared, expiry cleared) without the row having
\* all four afterwards.
C13_VerifyAtomic ==
  [][/\ \A p \in Procs :
          (req[p].op = "verify" /\ req[p].pc = "verify" /\ req'[p].pc # "verify")
          => /\ users'[req[p].uid].isEmailVerified
             /\ users'[req[p].uid].status = "active"
             /\ users'[req[p].uid].emailVerificationToken = NoToken
             /\ users'[req[p].uid].emailVerificationExpires = NoDate
     /\ \A id \in Ids :
          (\/ ~users[id].isEmailVerified /\ users'[id].isEmailVerified
           \/ users[id].status # "active" /\ users'[id].status = "active"
           \/ users[id].emailVerificationToken # NoToken
              /\ users'[id].emailVerificationToken = NoToken
           \/ users[id].emailVerificationExpires # NoDate
              /\ users'[id].emailVerificationExpires = NoDate)
          => /\ users'[id].isEmailVerified
             /\ users'[id].status = "active"
             /\ users'[id].emailVerificationToken = NoToken
             /\ users'[id].emailVerificationExpires = NoDate]_vars

\* A VerifyEmail has written and not yet answered: the row it found with a
\* token is verified, active and holds no token.
C13_Witness ==
  \E p \in Procs :
    /\ req[p].op = "verify" /\ req[p].pc = "mail"
    /\ req[p].exp # NoDate
    /\ users[req[p].uid].isEmailVerified
    /\ users[req[p].uid].status = "active"
    /\ users[req[p].uid].emailVerificationToken = NoToken
    /\ users[req[p].uid].emailVerificationExpires = NoDate

\* C14 (anti-enumeration): every ForgotPassword, for a known as for an
\* unknown email and also when the notifier fails to deliver, ends with the
\* one generic success answer.
C14_ForgotAntiEnumeration ==
  \A p \in Procs :
    (req[p].op = "forgot" /\ req[p].pc = "done") => req[p].res = ResForgot

C16_ResetTokenSingleUse ==
  [][\A p \in Procs :
       (/\ req[p].op = "reset" /\ req[p].pc = "find" /\ req'[p].pc # "find"
        /\ req[p].again)
       => /\ req'[p].pc = "done"
          /\ req'[p].res = ResInvalidResetToken
          /\ users' = users]_vars

\* The second ResetPassword with a used token, carrying another password,
\* was refused and the password of the first reset is still the one stored.
C16_Witness ==
  \E p \in Procs :
    /\ req[p].op = "reset" /\ req[p].pc = "done" /\ req[p].again
    /\ req[p].res = ResInvalidResetToken
    /\ req[p].password = PwSecret
    /\ \E id \in Ids : /\ ValidatePassword(users[id], PwDollar)
                       /\ users[id].passwordResetToken = NoToken

\* C17 (soft delete): when the only account with its email is soft-deleted,
\* Login ends at its lookup with "Invalid credentials" and ForgotPassword
\* with the generic success, minting and mailing nothing; Refresh for a
\* deleted id ends with "Invalid refresh token"; VerifyEmail and
\* ResetPassword with a token stored in a deleted row end with their
\* invalid-token answers; none of them changes a row.
C17_SoftDeleted ==
  [][\A p \in Procs :
       LET gone(e) == /\ \E i \in Ids : users[i].email = e /\ users[i].deleted
                      /\ ~\E i \in Ids : users[i].email = e /\ ~users[i].deleted
           atFind(op) == req[p].op = op /\ req[p].pc = "find" /\ req'[p].pc # "find"
           ends(res) == req'[p].pc = "done" /\ req'[p].res = res /\ users' = users
       IN /\ (atFind("login") /\ gone(req[p].email))
             => ends(ResInvalidCredentials) /\ issued' = issued
          /\ (atFind("forgot") /\ gone(req[p].email))
             => ends(ResForgot) /\ mailed' = mailed /\ nextTok' = nextTok
          /\ (atFind("refresh") /\ req[p].uid \in Ids /\ users[req[p].uid].deleted)
             => ends(ResInvalidRefreshToken) /\ issued' = issued
          /\ (atFind("verify")
              /\ \E i \in Ids : /\ users[i].emailVerificationToken = req[p].token
                                /\ users[i].deleted)
             => ends(ResInvalidVerificationToken)
          /\ (atFind("reset")
              /\ \E i \in Ids : /\ users[i].passwordResetToken = req[p].token
                                /\ users[i].deleted)
             => ends(ResInvalidResetToken)]_vars

\* A login with the right password on a soft-deleted account, which still
\* holds its refresh-token hash, was answered "Invalid credentials".
C17_Witness ==
  \E p \in Procs :
    /\ req[p].op = "login" /\ req[p].pc = "done"
    /\ req[p].res = ResInvalidCredentials
    /\ \E i \in Ids : /\ users[i].email = req[p].email
                      /\ users[i].deleted
                      /\ users[i].isEmailVerified
                      /\ users[i].status = "active"
                      /\ users[i].refreshToken # NoHash
                      /\ ValidatePassword(users[i], req[p].password)

\* C18 (concurrent refresh): of two Refresh calls that present the same
\* refresh token of one account, never both pass the check of the stored
\* hash, and once both have answered exactly one has succeeded and the other
\* has failed with "Invalid refresh token".
C18_ConcurrentRefresh ==
  \A p, q \in Procs :
    (/\ p # q
     /\ req[p].op = "refresh" /\ req[q].op = "refresh"
     /\ req[p].uid = req[q].uid /\ req[p].jwt = req[q].jwt)
    => LET passed(r) == \/ req[r].pc = "store"
                        \/ req[r].pc = "done" /\ req[r].res = ResRefreshed
       IN /\ ~(passed(p) /\ passed(q))
          /\ (req[p].pc = "done" /\ req[q].pc = "done")
             => \/ req[p].res = ResRefreshed /\ req[q].res = ResInvalidRefreshToken
                \/ req[q].res = ResRefreshed /\ req[p].res = ResInvalidRefreshToken

\* C19 (reset is one store mutation): no state has a ResetPassword that has
\* already changed the password of its account while the row still holds
\* the reset token or a refresh-token hash.
C19_ResetAtomic ==
  \A p \in Procs :
    (/\ req[p].op = "reset"
     /\ req[p].pc \in {"clearTok", "clearRt"}
     /\ users[req[p].uid].password = BcryptHash(req[p].password))
    => /\ users[req[p].uid].passwordResetToken # req[p].token
       /\ users[req[p].uid].refreshToken = NoHash

\* C20 (duplicate registration): a Register whose email belongs to a
\* non-deleted account ends at its lookup with 409 "User with this email
\* already exists"; no row is added or changed, no token is minted and
\* nothing is mailed.
C20_DuplicateRegister ==
  [][\A p \in Procs :
       (/\ req[p].op = "register" /\ req[p].pc = "find" /\ req'[p].pc # "find"
        /\ \E i \in Ids : users[i].email = req[p].email /\ ~users[i].deleted)
       => /\ req'[p].pc = "done"
          /\ req'[p].res = Res(409, "User with this email already exists")
          /\ users' = users
          /\ nextTok' = nextTok
          /\ mailed' = mailed]_vars

\* A Register with another password on the email of an existing account was
\* refused with 409 and the table still holds that one row, whose password
\* is the old one.
C20_Witness ==
  \E p \in Procs :
    /\ req[p].op = "register" /\ req[p].pc = "done"
    /\ req[p].res = ResConflict
    /\ Len(users) = 1
    /\ users[1].email = req[p].email
    /\ ~users[1].deleted
    /\ req[p].password = PwDollar
    /\ ValidatePassword(users[1], PwSecret)

\* C21 (what a successful Register leaves): the table holds exactly one
\* account with the email, the one the request created, inactive and
\* unverified, with the minted verification token, an expiry 24 hours after
\* the minting and an empty refresh-token hash; the token was mailed, and the
\* answer is 201 with a message and the account id and carries no token.
C21_RegisterCreatesPending ==
  \A p \in Procs :
    (req[p].op = "register" /\ req[p].pc = "done" /\ req[p].res = ResRegistered)
    => LET id == req[p].uid
       IN /\ id \in Ids
          /\ {i \in Ids : users[i].email = req[p].email} = {id}
          /\ users[id].status = "inactive"
          /\ ~users[id].isEmailVerified
          /\ req[p].mint # NoToken
          /\ users[id].emailVerificationToken = req[p].mint
          /\ users[id].emailVerificationExpires = req[p].at + EmailVerificationHours
          /\ users[id].refreshToken = NoHash
          /\ req[p].delivered = "ok"
          /\ req[p].mint \in mailed
          /\ req[p].res.code = 201
          /\ DOMAIN req[p].body = {"message", "userId"}
          /\ req[p].body.userId = id
          /\ req[p].out = NoJwt

\* A registration on the empty table succeeded.
C21_Witness ==
  \E p \in Procs :
    /\ req[p].op = "register" /\ req[p].pc = "done"
    /\ req[p].res = ResRegistered
    /\ Len(users) = 1
    /\ users[1].email = req[p].email
    /\ users[1].emailVerificationExpires = EmailVerificationHours
    /\ mailed = {req[p].mint}

\* C22 (a notification failure is never swallowed): a Register,
\* ResendVerification, VerifyEmail or ForgotPassword whose mail the notifier
\* failed to deliver has answered with an error and not with its success.
C22_MailFailureSurfaces ==
  \A p \in Procs :
    (req[p].delivered = "failed")
    => /\ req[p].op \in {"register", "resend", "verify", "forgot"}
       /\ req[p].pc = "done"
       /\ req[p].res.code >= 400
       /\ req[p].res \notin {ResRegistered, ResResent, ResVerified, ResForgot}

\* The welcome mail of a VerifyEmail failed: the request answered with an
\* error although the account is verified.
C22_Witness ==
  \E p \in Procs :
    /\ req[p].op = "verify" /\ req[p].pc = "done"
    /\ req[p].delivered = "failed"
    /\ req[p].res = ResMailFailed
    /\ users[req[p].uid].isEmailVerified

\* C23 (resend verification): ResendVerification for an email with no
\* non-deleted account fails NotFound and for a verified account fails
\* AlreadyVerified, changing nothing; otherwise it overwrites the account's
\* verification token and expiry (24 hours from the reading of the clock it
\* was minted at) with a fresh token. From then on VerifyEmail with the token
\* it overwrote fails InvalidToken and changes nothing, and VerifyEmail with
\* the token the account holds, not yet expired, goes on to verify the
\* account.
C23_ResendSupersedes ==
  [][\A p \in Procs :
       /\ (req[p].op = "resend" /\ req[p].pc = "find" /\ req'[p] # req[p])
          => LET rows == {i \in Ids : users[i].email = req[p].email
                                       /\ ~users[i].deleted}
             IN /\ (rows = {})
                   => /\ req'[p].pc = "done" /\ req'[p].res = ResUserNotFound
                      /\ users' = users /\ superseded' = superseded
                /\ (\E i \in rows : users[i].isEmailVerified)
                   => /\ req'[p].pc = "done" /\ req'[p].res = ResAlreadyVerified
                      /\ users' = users /\ superseded' = superseded
                /\ (\E i \in rows : ~users[i].isEmailVerified)
                   => /\ req'[p].pc = "setTok"
                      /\ req'[p].mint \notin mailed \cup superseded
                      /\ \A i \in Ids :
                           req'[p].mint \notin {users[i].emailVerificationToken,
                                                users[i].passwordResetToken}
       /\ (req[p].op = "resend" /\ req[p].pc = "setTok" /\ req'[p] # req[p])
          => /\ users'[req[p].uid].emailVerificationToken = req[p].mint
             /\ users'[req[p].uid].emailVerificationExpires
                  = req[p].at + EmailVerificationHours
             /\ users[req[p].uid].emailVerificationToken # NoToken
                => users[req[p].uid].emailVerificationToken \in superseded'
       /\ (req[p].op = "verify" /\ req[p].pc = "find" /\ req'[p] # req[p])
          => /\ (req[p].token \in superseded)
                => /\ req'[p].pc = "done"
                   /\ req'[p].res = ResInvalidVerificationToken
                   /\ users' = users
             /\ \A i \in Ids :
                  (/\ ~users[i].deleted
                   /\ users[i].emailVerificationToken = req[p].token
                   /\ users[i].emailVerificationExpires >= now)
                  => req'[p].pc = "verify" /\ req'[p].uid = i
       /\ (req[p].op = "verify" /\ req[p].pc = "verify" /\ req'[p] # req[p])
          => users'[req[p].uid].isEmailVerified
    ]_vars

\* VerifyEmail with the token of the registration was refused as invalid
\* after a ResendVerification overwrote it: the account holds the resent
\* token and is still unverified.
C23_Witness ==
  \E p \in Procs : \E i \in Ids :
    /\ req[p].op = "verify" /\ req[p].pc = "done"
    /\ req[p].res = ResInvalidVerificationToken
    /\ req[p].token \in superseded \cap mailed
    /\ ~users[i].isEmailVerified
    /\ users[i].emailVerificationToken \in mailed \ superseded

\* C24 (a newer reset request supersedes the earlier one): ForgotPassword
\* for an account overwrites its reset token and expiry with a fresh token
\* that expires one hour after the reading of the clock it was minted at;
\* from then on ResetPassword with the token it overwrote fails InvalidToken
\* and changes nothing, and only the token the account holds gets as far as
\* replacing the password.
C24_ForgotSupersedes ==
  [][\A p \in Procs :
       /\ (req[p].op = "forgot" /\ req[p].pc = "setTok" /\ req'[p] # req[p])
          => /\ users'[req[p].uid].passwordResetToken = req[p].mint
             /\ users'[req[p].uid].passwordResetExpires
                  = req[p].at + PasswordResetHours
             /\ req[p].mint \notin mailed \cup superseded
             /\ users[req[p].uid].passwordResetToken # NoToken
                => /\ users[req[p].uid].passwordResetToken # req[p].mint
                   /\ users[req[p].uid].passwordResetToken \in superseded'
       /\ (req[p].op = "reset" /\ req[p].pc = "find" /\ req'[p] # req[p])
          => /\ (req[p].token \in superseded)
                => /\ req'[p].pc = "done"
                   /\ req'[p].res = ResInvalidResetToken
                   /\ users' = users
             /\ (req'[p].pc = "update")
                => /\ req[p].token \notin superseded
                   /\ users[req'[p].uid].passwordResetToken = req[p].token
             /\ \A i \in Ids :
                  (/\ ~users[i].deleted
                   /\ users[i].passwordResetToken = req[p].token
                   /\ users[i].passwordResetExpires >= now)
                  => req'[p].pc = "update" /\ req'[p].uid = i
       /\ (req[p].op = "reset" /\ req[p].pc = "update" /\ req'[p] # req[p])
          => /\ req[p].token \notin superseded
             /\ users'[req[p].uid].password = BcryptHash(req[p].password)
    ]_vars

\* ResetPassword with the token of the first ForgotPassword was refused as
\* invalid after a second ForgotPassword: the account holds the second token
\* and its password is the one it had.
C24_Witness ==
  \E p \in Procs : \E i \in Ids :
    /\ req[p].op = "reset" /\ req[p].pc = "done"
    /\ req[p].res = ResInvalidResetToken
    /\ req[p].token \in superseded \cap mailed
    /\ users[i].passwordResetToken \in mailed \ superseded
    /\ users[i].password = BcryptHash(PwSecret)

\* C25 (token fields only while a verification is outstanding): in every
\* reachable state, however VerifyEmail and ResendVerification interleave, a
\* verified account has no stored verification token and no verification
\* expiry.
C25_VerifiedHoldsNoToken ==
  \A i \in Ids :
    users[i].isEmailVerified
    => /\ users[i].emailVerificationToken = NoToken
       /\ users[i].emailVerificationExpires = NoDate

\* C26 (lastLoginAt changes only in a successful Login): a Login that has
\* answered its caller with a failure, the one that fails while storing the
\* refresh token included, has left lastLoginAt of the account as it found
\* it.
C26_LastLoginOnlyOnSuccess ==
  \A p \in Procs :
    (/\ req[p].op = "login" /\ req[p].pc = "done"
     /\ req[p].res # ResLoggedIn
     /\ req[p].uid \in Ids)
    => users[req[p].uid].lastLoginAt = req[p].lastLoginAt

\* C27 (an access token authorizes only an account in good standing): the
\* guard of a protected route lets a request through only when the account of
\* its token exists, is not soft-deleted, is verified and is active;
\* otherwise, as for a token issued before the account was soft-deleted or
\* made non-active, the request ends there with 401 and changes nothing. No
\* protected operation runs but through the guard.
C27_AccessNeedsStanding ==
  [][\A p \in Procs :
       /\ (req[p].pc = "guard" /\ req'[p] # req[p])
          => LET u == req[p].uid
                 standing == /\ u \in Ids
                             /\ ~users[u].deleted
                             /\ users[u].isEmailVerified
                             /\ users[u].status = "active"
             IN IF standing
                THEN req'[p].pc = "run"
                ELSE /\ req'[p].pc = "done"
                     /\ req'[p].res.code = 401
                     /\ users' = users
       /\ (req'[p].pc = "run" /\ req[p].pc # "run")
          => req[p].pc = "guard" /\ req[p].op \in {"logout", "update", "remove"}
    ]_vars

\* A protected request that presented the unexpired access token of a login
\* made before the account was soft-deleted was rejected with 401.
C27_Witness ==
  \E p \in Procs :
    /\ req[p].op \in {"logout", "update", "remove"}
    /\ req[p].pc = "done" /\ req[p].kind = "access"
    /\ req[p].res = Res(401, "User not found")
    /\ users[req[p].uid].deleted
    /\ users[req[p].uid].isEmailVerified
    /\ users[req[p].uid].status = "active"
    /\ \E jwt \in issued : jwt.sub = req[p].uid /\ AccessTokenUsable(jwt)

\* C28 (key-domain separation): a token signed in the access domain is never
\* accepted where a refresh token is verified, and a token signed in the
\* refresh domain is never accepted as a bearer access token: a request that
\* presents the token of the other domain, which is also the only token a
\* party knowing that domain's secret can sign, is answered 401 by the
\* strategy.
C28_KeyDomainSeparation ==
  \A p \in Procs :
    /\ (req[p].op = "refresh" /\ req[p].kind = "access")
       => req[p].pc = "done" /\ req[p].res = ResUnauthorized
    /\ (req[p].op \in {"logout", "update", "remove"} /\ req[p].kind = "refresh")
       => req[p].pc = "done" /\ req[p].res = ResUnauthorized

\* C29 (queries exclude soft-deleted accounts by default): findAll returns
\* only accounts with deleted = false, all of them, and findAllWithDeleted
\* returns the soft-deleted accounts as well.
C29_FindAllExcludesDeleted ==
  /\ FindAll = {i \in Ids : ~users[i].deleted}
  /\ FindAllWithDeleted = Ids

\* C30 (Refresh does not re-check account standing): for a non-deleted
\* account whose stored refresh-token hash matches the presented token,
\* Refresh goes on to rotate the token and succeeds whatever the account's
\* status and isEmailVerified are; when the account is not active or not
\* verified, the guard of the protected routes rejects the account of the
\* access token it returned.
C30_RefreshIgnoresStanding ==
  [][\A p \in Procs :
       /\ (req[p].op = "refresh" /\ req[p].pc = "find" /\ req'[p] # req[p])
          => LET u == req[p].uid IN
             (/\ u \in Ids
              /\ ~users[u].deleted
              /\ users[u].refreshToken # NoHash
              /\ BcryptCompareToken(req[p].jwt, users[u].refreshToken))
             => req'[p].pc = "store" /\ req'[p].out = CreateTokens(u)
       /\ (req[p].op = "refresh" /\ req[p].pc = "store" /\ req'[p] # req[p])
          => LET u == req[p].uid IN
             /\ req'[p].pc = "done" /\ req'[p].res = ResRefreshed
             /\ users'[u].refreshToken = BcryptHash(req[p].out)
             /\ req[p].out \in issued'
             /\ (~users[u].isEmailVerified \/ users[u].status # "active")
                => (JwtValidate(req[p].out.sub).code = 401)'
    ]_vars

\* Refresh succeeded and rotated the token of a suspended account; the guard
\* rejects the account of the access token it returned.
C30_Witness ==
  \E p \in Procs :
    /\ req[p].op = "refresh" /\ req[p].pc = "done"
    /\ req[p].res = ResRefreshed
    /\ users[req[p].uid].status # "active"
    /\ ~users[req[p].uid].deleted
    /\ users[req[p].uid].refreshToken = BcryptHash(req[p].out)
    /\ req[p].out \in issued
    /\ JwtValidate(req[p].out.sub) = Res(401, "Account is not active")

\* C31 (sendEmail terminates): whatever the transport calls settle with,
\* sendEmail makes at most 3 sendMail attempts, returns on the first one that
\* succeeds, throws after the third failed attempt, throws at once and makes
\* no further call on an EAUTH or ENOTFOUND error, runs transporter.verify
\* only before the first attempt, and always ends by returning or throwing.
C31_Bounded ==
  LET log == smtp.log
      sends == {i \in 1..Len(log) : log[i].call = "sendMail"}
      failed == {i \in 1..Len(log) : log[i].outcome # "ok"}
  IN /\ Cardinality(sends) <= MaxRetries
     /\ \A i \in 1..Len(log) : log[i].call = "verify" => i = 1
     /\ \A i \in 1..Len(log) :
          (log[i].outcome \in FatalErrors \/ (i \in sends /\ log[i].outcome = "ok"))
          => i = Len(log) /\ smtp.pc \in {"returned", "thrown"}
     /\ smtp.pc = "returned"
        <=> (log # << >> /\ Len(log) \in sends /\ log[Len(log)].outcome = "ok")
     /\ smtp.pc = "thrown"
        <=> (\/ \E i \in failed : log[i].outcome \in FatalErrors
             \/ Cardinality(failed) = MaxRetries)
     /\ Cardinality(failed) <= MaxRetries
     /\ smtp.attempt <= MaxRetries

C31_SendEmailTerminates ==
  []C31_Bounded /\ <>(smtp.pc \in {"returned", "thrown"})

\* sendEmail threw after its third attempt failed with an error it retries
\* on: one connection check and three sendMail calls were made.
C31_Witness ==
  /\ smtp.pc = "thrown"
  /\ smtp.attempt = MaxRetries
  /\ smtp.lastError \notin FatalErrors
  /\ Len(smtp.log) = MaxRetries + 1
  /\ smtp.log[1] = [call |-> "verify", outcome |-> "ok"]
  /\ \A i \in 2..Len(smtp.log) : smtp.log[i].call = "sendMail"

\* C32 (active if and only if verified): no lifecycle or user-profile
\* operation breaks the equivalence of status = active and isEmailVerified =
\* true on an account that has it, and an account is created with it
\* (inactive, unverified); none returns a verified, active account to
\* unverified or inactive, and none produces status = suspended.
C32_ActiveIffVerified ==
  [][\A i \in 1..Len(users') :
       IF i \in Ids
       THEN /\ ((users[i].status = "active") <=> users[i].isEmailVerified)
               => ((users'[i].status = "active") <=> users'[i].isEmailVerified)
            /\ (users[i].status = "active" /\ users[i].isEmailVerified)
               => (users'[i].status = "active" /\ users'[i].isEmailVerified)
            /\ (users[i].status # "suspended") => (users'[i].status # "suspended")
       ELSE users'[i].status = "inactive" /\ ~users'[i].isEmailVerified
    ]_vars

\* An account that registered and verified is verified and active after a
\* profile update.
C32_Witness ==
  \E p \in Procs :
    /\ req[p].op = "update" /\ req[p].pc = "done" /\ req[p].res = ResUpdated
    /\ users[req[p].uid].status = "active"
    /\ users[req[p].uid].isEmailVerified
    /\ users[req[p].uid].emailVerificationToken = NoToken
    /\ verifiedOk # {}

\* C33 (Logout racing Refresh): when a Logout and a Refresh on the same
\* account overlap, once both have completed the stored refresh-token hash
\* is empty.
C33_LogoutBeatsRefresh ==
  \A p, q \in Procs :
    (/\ req[p].op = "logout" /\ req[p].pc = "done" /\ req[p].res = ResLoggedOut
     /\ req[q].op = "refresh" /\ req[q].pc = "done"
     /\ req[q].uid = req[p].uid)
    => users[req[p].uid].refreshToken = NoHash

\* C34 (password reset racing Login): when a Login that presented the old
\* password overlaps a ResetPassword on the same account, once both have
\* completed the stored refresh-token hash is empty, so no refresh token
\* obtained with the old password is accepted.
C34_ResetBeatsLogin ==
  \A p, q \in Procs :
    (/\ req[p].op = "login" /\ req[p].pc = "done" /\ req[p].res = ResLoggedIn
     /\ req[q].op = "reset" /\ req[q].pc = "done" /\ req[q].res = ResPasswordReset
     /\ req[q].uid = req[p].uid
     /\ ~ValidatePassword(users[req[p].uid], req[p].password))
    => /\ users[req[p].uid].refreshToken = NoHash
       /\ ~RefreshAccepts(req[p].uid, req[p].out)

\* C35 (concurrent consumption of a single-use token): of two overlapping
\* VerifyEmail calls with the same token, or two overlapping ResetPassword
\* calls with the same reset token, at most one returns success, and at most
\* one welcome notification is sent.
C35_OneConsumer ==
  \A p, q \in Procs :
    (/\ p # q
     /\ req[p].op \in {"verify", "reset"} /\ req[q].op = req[p].op
     /\ req[p].token = req[q].token
     /\ req[p].pc = "done" /\ req[q].pc = "done")
    => /\ ~(req[p].res.code = 200 /\ req[q].res.code = 200)
       /\ ~(req[p].delivered = "ok" /\ req[q].delivered = "ok")

\* C36 (a Register whose verification mail fails keeps the account): the
\* failing Register leaves the account it created as it is, not deleted,
\* inactive, unverified and holding its verification token, which was never
\* delivered; a Register for the email of an account in that state fails with
\* DuplicateAccount and changes nothing; and an account becomes verified only
\* by a VerifyEmail that presents the token the account holds, a delivered
\* one, which for such an account only ResendVerification can have stored.
C36_FailedRegisterKeepsAccount ==
  [][\A p \in Procs :
       /\ (/\ req[p].op = "register" /\ req[p].pc = "mail"
           /\ req'[p].delivered = "failed")
          => /\ req'[p].pc = "done" /\ req'[p].res = ResMailFailed
             /\ users' = users
             /\ ~users[req[p].uid].deleted
             /\ users[req[p].uid].status = "inactive"
             /\ ~users[req[p].uid].isEmailVerified
             /\ users[req[p].uid].emailVerificationToken = req[p].mint
             /\ req[p].mint \notin mailed'
       /\ (/\ req[p].op = "register" /\ req[p].pc = "find" /\ req'[p] # req[p]
           /\ \E i \in Ids : /\ users[i].email = req[p].email
                             /\ ~users[i].deleted
                             /\ ~users[i].isEmailVerified
                             /\ users[i].emailVerificationToken \notin mailed)
          => /\ req'[p].pc = "done" /\ req'[p].res = ResConflict
             /\ users' = users
       /\ \A i \in Ids :
            (~users[i].isEmailVerified /\ users'[i].isEmailVerified)
            => \E q \in Procs :
                 /\ req[q].op = "verify" /\ req[q].pc = "verify" /\ req[q].uid = i
                 /\ req[q].token \in mailed
                 /\ req[q].token = users[i].emailVerificationToken
    ]_vars

\* An account whose registration mail failed was completed by a
\* ResendVerification and a VerifyEmail with the resent token: the token of
\* the registration was overwritten without ever being delivered.
C36_Witness ==
  \E p \in Procs :
    /\ req[p].op = "verify" /\ req[p].pc = "done" /\ req[p].res = ResVerified
    /\ users[req[p].uid].isEmailVerified
    /\ users[req[p].uid].status = "active"
    /\ req[p].token \in mailed
    /\ \E t \in superseded : t \notin mailed /\ t < req[p].token

\* C37 (a VerifyEmail whose welcome mail fails has committed): the failing
\* VerifyEmail leaves the account verified and active with its token and
\* expiry cleared; a later VerifyEmail with that token fails with
\* InvalidToken and changes nothing; and a Login with the password of a
\* non-deleted, verified, active account passes its checks and returns
\* success unless the database rejects the store of its refresh-token hash.
C37_FailedWelcomeKeepsVerification ==
  [][\A p \in Procs :
       /\ (/\ req[p].op = "verify" /\ req[p].pc = "mail"
           /\ req'[p].delivered = "failed")
          => /\ req'[p].pc = "done" /\ req'[p].res = ResMailFailed
             /\ users' = users
             /\ users[req[p].uid].isEmailVerified
             /\ users[req[p].uid].status = "active"
             /\ users[req[p].uid].emailVerificationToken = NoToken
             /\ users[req[p].uid].emailVerificationExpires = NoDate
             /\ req[p].token \in consumed
             /\ req[p].token \notin verifiedOk'
       /\ (/\ req[p].op = "verify" /\ req[p].pc = "find" /\ req'[p] # req[p]
           /\ req[p].token \in consumed)
          => /\ req'[p].pc = "done"
             /\ req'[p].res = ResInvalidVerificationToken
             /\ users' = users
       /\ (req[p].op = "login" /\ req[p].pc = "find" /\ req'[p] # req[p])
          => \A i \in Ids :
               (/\ users[i].email = req[p].email /\ ~users[i].deleted
                /\ users[i].isEmailVerified /\ users[i].status = "active"
                /\ ValidatePassword(users[i], req[p].password))
               => req'[p].pc = "lastLogin" /\ req'[p].uid = i
       /\ (req[p].op = "login" /\ req[p].pc = "store" /\ req'[p] # req[p])
          => /\ req'[p].pc = "done"
             /\ req'[p].res \in {ResLoggedIn, ResQueryFailed}
             /\ (req'[p].res = ResLoggedIn)
                => /\ users'[req[p].uid].refreshToken = BcryptHash(req[p].out)
                   /\ req[p].out \in issued'
    ]_vars

\* A Login succeeded on an account whose VerifyEmail had answered with the
\* failure of the welcome mail.
C37_Witness ==
  \E p \in Procs :
    /\ req[p].op = "login" /\ req[p].pc = "done" /\ req[p].res = ResLoggedIn
    /\ users[req[p].uid].isEmailVerified
    /\ users[req[p].uid].status = "active"
    /\ consumed # {} /\ verifiedOk = {}

\* C38 (one record per email, deleted or not): a Register with the email of
\* a soft-deleted account passes the duplicate check, is rejected by the
\* unique-email constraint when it inserts, creates no account, mints and
\* sends nothing and fails with an error that is not DuplicateAccount; no
\* step leaves two records with one email.
C38_DeletedEmailStaysTaken ==
  [][/\ \A p \in Procs :
          (/\ req[p].op = "register" /\ req[p].pc \in {"find", "create"}
           /\ req'[p] # req[p]
           /\ \E i \in Ids : users[i].email = req[p].email /\ users[i].deleted)
          => /\ (req[p].pc = "find") => (req'[p].pc = "create" /\ users' = users)
             /\ (req[p].pc = "create")
                => /\ req'[p].pc = "done"
                   /\ req'[p].res.code >= 400
                   /\ req'[p].res # ResConflict
                   /\ req'[p].delivered = "none"
                   /\ users' = users /\ mailed' = mailed /\ nextTok' = nextTok
     /\ \A i, j \in 1..Len(users') : users'[i].email = users'[j].email => i = j
    ]_vars

\* A Register with the email of a soft-deleted account has failed with the
\* store's error: the deleted record is the only one.
C38_Witness ==
  \E p \in Procs :
    /\ req[p].op = "register" /\ req[p].pc = "done"
    /\ req[p].res = ResQueryFailed
    /\ Len(users) = 1
    /\ users[1].email = req[p].email /\ users[1].deleted
    /\ req[p].mint = NoToken /\ req[p].delivered = "none"

\* C39 (a failed Refresh changes nothing): a Refresh that presents a refresh
\* token other than the one whose hash is stored, a superseded one included,
\* fails with InvalidRefreshToken and leaves the table as it was.
C39_StaleRefreshRejected ==
  [][\A p \in Procs :
       (/\ req[p].op = "refresh" /\ req[p].pc = "find" /\ req'[p] # req[p]
        /\ req[p].uid \in Ids
        /\ users[req[p].uid].refreshToken # NoHash
        /\ users[req[p].uid].refreshToken.of # req[p].jwt)
       => /\ req'[p].pc = "done"
          /\ req'[p].res = ResInvalidRefreshToken
          /\ users' = users
    ]_vars

\* C40 (Logout and ResetPassword invalidate only the refresh token): the
\* step of a Logout or a ResetPassword that clears the stored hash leaves
\* every unexpired access token unexpired, and the guard of a protected route
\* lets a request with an access token through although the account's stored
\* hash is empty, as long as the account is non-deleted, verified and active.
C40_AccessTokenOutlivesSession ==
  [][\A p \in Procs :
       /\ (/\ \/ req[p].op = "logout" /\ req[p].pc = "run"
              \/ req[p].op = "reset" /\ req[p].pc = "clearRt"
           /\ req'[p] # req[p])
          => /\ users'[req[p].uid].refreshToken = NoHash
             /\ \A jwt \in issued : AccessTokenUsable(jwt) => AccessTokenUsable(jwt)'
       /\ (/\ req[p].pc = "guard" /\ req[p].kind = "access" /\ req'[p] # req[p]
           /\ req[p].uid \in Ids
           /\ users[req[p].uid].refreshToken = NoHash
           /\ ~users[req[p].uid].deleted
           /\ users[req[p].uid].isEmailVerified
           /\ users[req[p].uid].status = "active")
          => req'[p].pc = "run"
    ]_vars

\* A profile update with the access token of a login succeeded after the
\* Logout of that session.
C40_Witness ==
  \E p \in Procs :
    /\ req[p].op = "update" /\ req[p].pc = "done" /\ req[p].res = ResUpdated
    /\ req[p].kind = "access"
    /\ req[p].uid \in loggedOut
    /\ users[req[p].uid].refreshToken = NoHash

====
